---- MODULE Spec2Model ----
(***************************************************************************)
(* Auditorium booking: the conflict check of lib/bookings.ts and           *)
(* lib/sheets.ts, the booking repository over table public.bookings, and   *)
(* the UI handlers that call them (BookingForm, MyBookings).               *)
(*                                                                         *)
(* Eleven specifications are defined over the same variables:              *)
(*   SpecConflict  the conflict checkers as pure functions: Init draws the *)
(*                 arguments, the actions call the checkers;               *)
(*   Spec          one client creating and deleting bookings while other   *)
(*                 principals insert and delete rows of their own;         *)
(*   SpecRace      two clients creating bookings at the same time;         *)
(*   SpecScenario  the end-to-end scenario: create A, try B, delete A,     *)
(*                 create B;                                               *)
(*   SpecSerial    one client creating and editing bookings, one write at  *)
(*                 a time, each followed by a fetch;                       *)
(*   SpecRepo      addBooking, updateBooking and deleteBooking called with *)
(*                 any id and owner by two clients;                        *)
(*   SpecSheets    SheetsService and the Index page;                       *)
(*   SpecMutate    one client creating, editing and deleting through       *)
(*                 BookingForm and MyBookings, writes may fail;            *)
(*   SpecViews     MyBookings and Dashboard of one user while another user *)
(*                 creates bookings;                                       *)
(*   SpecWeekday   getWeekdayOptions, one loop iteration per step;         *)
(*   SpecGrid      the conflict checkers on the forms' time grid.          *)
(***************************************************************************)
EXTENDS Integers, Sequences, FiniteSets, TLC

(***************************************************************************)
(* Bounds.                                                                 *)
(***************************************************************************)
\* Longest existingBookings list handed to the checkers in SpecConflict.
MaxExisting == 2
\* Rows the bookings table ever receives (inserts stop after that).
MaxRows == 2

(***************************************************************************)
(* Values.                                                                 *)
(*   A date string 'yyyy-MM-dd' is modelled by its day number.             *)
(*   A time string is the tuple of its numeric fields: <<hh, mm>> for the  *)
(*   form's "HH:MM", <<hh, mm, ss>> for the "HH:MM:SS" a TIME column       *)
(*   returns.                                                              *)
(***************************************************************************)
Dates == {1, 2}

\* Clock times given to the checkers in SpecConflict: the half hours from
\* 02:00 to 03:30.
CheckTimes == {<<2, 0>>, <<2, 30>>, <<3, 0>>, <<3, 30>>}

\* A value that may be absent (null, undefined, not yet returned) is the
\* empty tuple or the one-element tuple of the value.
Null == <<>>
Some(v) == <<v>>

(***************************************************************************)
(* Host time zone.  new Date("<date> <time>") reads the string as LOCAL    *)
(* time of the host, so the timestamp depends on the host's zone.  A zone  *)
(* is given by the date on which its clocks are set forward from 02:00 to  *)
(* 03:00 (NoDST: no such date in range).  The zone's standard offset is    *)
(* a constant shift of every timestamp and is left out.                    *)
(***************************************************************************)
NoDST == 0
Zones == {NoDST, 1}

\* Date.now() at the start, in milliseconds; far above any row index.
ClockStart == 100

VARIABLES
    tz,                 \* host time zone of the JS runtime
    call,               \* SpecConflict: the (date, startTime, endTime) arguments
    existingBookings,   \* SpecConflict: the existingBookings argument
    hasConflict,        \* SpecConflict: result of bookingsService.checkTimeConflict
    sheetsConflict,     \* SpecConflict: result of SheetsService.checkTimeConflict
    editingBooking,     \* SpecConflict: MyBookings.editingBooking
    ownExcluded,        \* SpecConflict: own slot checked against otherBookings
    ownIncluded,        \* SpecConflict: own slot checked against all bookings
    script,             \* SpecScenario: the bookings A and B of the scenario
    rows,               \* the rows of table public.bookings
    nextId,             \* number of the next row (gen_random_uuid(), now())
    user,               \* per client: useAuth().user, Null when signed out
    bookings,           \* per client: the page's bookings state (the form's
                        \*   existingBookings prop, the lists' bookings prop)
    loading,            \* per client: the page's loading state (a fetch runs)
    showBookingForm,    \* per client: BookingCalendar.showBookingForm
    isSubmitting,       \* per client: BookingForm.isSubmitting
    conflictError,      \* per client: BookingForm.conflictError
    req,                \* per client: the insert sent by addBooking, in flight
    ret,                \* the last call of a repository operation and its outcome
    sheet,              \* SheetsService: the rows of the Bookings sheet below the header
    local,              \* SheetsService: localStorage['auditorium-bookings']
    now,                \* SheetsService: the clock, Date.now()
    today,              \* getWeekdayOptions: the day of `new Date()`
    dayIndex,           \* getWeekdayOptions: the loop variable i
    options             \* getWeekdayOptions: the options array, Null before a call

pureVars == <<call, existingBookings, hasConflict, sheetsConflict,
              editingBooking, ownExcluded, ownIncluded, script>>

storeVars == <<rows, nextId>>

clientVars == <<user, bookings, loading, showBookingForm, isSubmitting,
                conflictError, req>>

callVars == <<ret>>

sheetVars == <<sheet, local, now>>

dateVars == <<today, dayIndex, options>>

vars == <<tz, dateVars, callVars, sheetVars, pureVars, storeVars, clientVars>>

(***************************************************************************)
(* Date parsing and comparison.                                            *)
(***************************************************************************)
\* Seconds since local midnight of a time string (seconds field optional).
SecondsOfDay(time) ==
    time[1] * 3600 + time[2] * 60 + (IF Len(time) >= 3 THEN time[3] ELSE 0)

\* UTC seconds of a local wall-clock reading in zone z (ECMAScript UTC(t)):
\* a reading before the transition keeps the standard offset, a reading the
\* transition skips (02:00..02:59 on that date) is taken with the offset
\* in force BEFORE the transition, a later reading is one hour ahead of
\* standard time.
LocalToEpoch(z, day, sod) ==
    IF z = NoDST \/ day < z \/ (day = z /\ sod < 3 * 3600)
    THEN day * 86400 + sod
    ELSE day * 86400 + sod - 3600

\* new Date(`${date} ${time}`).valueOf(), in seconds.
NewDate(z, d, time) == LocalToEpoch(z, d, SecondsOfDay(time))

\* Variant of timeToMinutes: the minutes are dropped.
timeToMinutesHoursOnly(time) == time[1] * 60

\* SheetsService.timeToMinutes: time.split(':').map(Number), hours*60+minutes.
timeToMinutes(time) == time[1] * 60 + time[2]

(***************************************************************************)
(* The two conflict checkers.                                              *)
(***************************************************************************)
\* Variant of OverlapsBooking: no date filter, and every timestamp built on
\* the candidate's date.
OverlapsBookingAnyDate(z, d, s, e, booking) ==
    /\ NewDate(z, d, s) < NewDate(z, d, booking.endTime)
    /\ NewDate(z, d, e) > NewDate(z, d, booking.startTime)

\* The callback of existingBookings.some in bookingsService.checkTimeConflict.
OverlapsBooking(z, d, s, e, booking) ==
    IF booking.date # d THEN FALSE
    ELSE NewDate(z, d, s) < NewDate(z, booking.date, booking.endTime)
         /\ NewDate(z, d, e) > NewDate(z, booking.date, booking.startTime)

\* Variant of checkTimeConflict: every instead of some.
checkTimeConflictEvery(z, d, s, e, existing) ==
    \A i \in 1..Len(existing) : OverlapsBooking(z, d, s, e, existing[i])

\* Variant of checkTimeConflict: only the first booking is looked at.
checkTimeConflictFirst(z, d, s, e, existing) ==
    Len(existing) > 0 /\ OverlapsBooking(z, d, s, e, existing[1])

\* bookingsService.checkTimeConflict(date, startTime, endTime, existingBookings)
checkTimeConflict(z, d, s, e, existing) ==
    \E i \in 1..Len(existing) : OverlapsBooking(z, d, s, e, existing[i])

\* SheetsService.checkTimeConflict(date, startTime, endTime, bookings)
sheetsCheckTimeConflict(d, s, e, existing) ==
    \E i \in 1..Len(existing) :
        /\ existing[i].date = d
        /\ timeToMinutes(s) < timeToMinutes(existing[i].endTime)
        /\ timeToMinutes(e) > timeToMinutes(existing[i].startTime)

\* MyBookings: bookings.filter(booking => booking.id !== editingBooking.id)
otherBookings(list, editing) ==
    SelectSeq(list, LAMBDA b : b.id # editing.id)

(***************************************************************************)
(* The bookings table.                                                     *)
(***************************************************************************)
Clients == {"c1", "c2"}

\* The principal a client signs in as.
UserOf(c) == IF c = "c1" THEN "u1" ELSE "u2"

Titles == {"Staff Meeting", "Budget Review"}

\* user.email of a principal.
UserEmail(u) == IF u = "u1" THEN "u1@org" ELSE "u2@org"

\* What is typed into the form's email field.
Emails == {"u1@org", "u2@org"}

\* BookingForm.timeSlots[i].value: "08:00", "08:30", ..., "18:00".
SlotTime(i) == <<8 + (i \div 2), 30 * (i % 2)>>

\* The slots used here: "09:00", "09:30", "10:00", "10:30".
UITimes == {SlotTime(i) : i \in {2, 3, 4, 5}}

\* Dates offered by the form (getWeekdayOptions), here one of them.
FormDates == {1}

FormValues ==
    [date : FormDates, startTime : UITimes, endTime : UITimes, title : Titles,
     email : Emails]

\* String comparison a < b of two zero-padded "HH:MM" strings.
StringLT(a, b) == a[1] < b[1] \/ (a[1] = b[1] /\ a[2] < b[2])

\* bookingSchema: the refinement startTime < endTime (the other fields are
\* always filled in here).
bookingSchema(data) == StringLT(data.startTime, data.endTime)

\* What the users type in Spec and SpecRace.
Submissions ==
    {data \in FormValues :
        bookingSchema(data) /\ data.title = "Staff Meeting" /\ data.email = "u1@org"}

\* A TIME column takes "HH:MM" and returns "HH:MM:SS".
ToTimeColumn(time) == <<time[1], time[2], 0>>

\* The row bookingsService.addBooking inserts; id and created_at are
\* defaults of the table.  booked_by and department are carried along
\* unread and are left out.
InsertedRow(data, userId, n) ==
    [id |-> n, date |-> data.date,
     start_time |-> ToTimeColumn(data.startTime),
     end_time |-> ToTimeColumn(data.endTime),
     title |-> data.title, email |-> data.email, created_at |-> n,
     user_id |-> userId]

\* Two rows of one date whose time ranges overlap.
RowsOverlap(r1, r2) ==
    /\ r1.date = r2.date
    /\ SecondsOfDay(r1.start_time) < SecondsOfDay(r2.end_time)
    /\ SecondsOfDay(r2.start_time) < SecondsOfDay(r1.end_time)

\* Variant of InsertPolicy for a table that also carries an exclusion
\* constraint on (date, time range).
InsertPolicyExclusive(row, uid) ==
    /\ uid # Null
    /\ uid[1] = row.user_id
    /\ \A r \in rows : ~RowsOverlap(r, row)

\* Policy "Authenticated users can create bookings": TO authenticated
\* WITH CHECK (auth.uid() = user_id).  uid is Null without a session.
InsertPolicy(row, uid) == uid # Null /\ uid[1] = row.user_id

\* Policy "Users can delete their own bookings": USING (auth.uid() = user_id).
DeletePolicy(row, uid) == uid # Null /\ uid[1] = row.user_id

\* Policy "Authenticated users can view all bookings": TO authenticated
\* USING (true).
SelectPolicy(row, uid) == uid # Null

\* The mapping of bookingsService.getBookings from a row to a BookingSlot.
ToBookingSlot(row) ==
    [id |-> row.id, date |-> row.date, startTime |-> row.start_time,
     endTime |-> row.end_time, title |-> row.title, email |-> row.email,
     createdAt |-> row.created_at, user_id |-> row.user_id]

\* All orders of a finite set as sequences.
RECURSIVE Orderings(_)
Orderings(S) ==
    IF S = {} THEN {<<>>}
    ELSE UNION {{<<x>> \o l : l \in Orderings(S \ {x})} : x \in S}

\* Variant of getBookings: nothing is returned.
getBookingsNone(table, uid) == {<<>>}

\* bookingsService.getBookings: select * order by date ascending, mapped.
\* The order among rows of one date is the store's choice.
getBookings(table, uid) ==
    {l \in Orderings({ToBookingSlot(r) : r \in {x \in table : SelectPolicy(x, uid)}}) :
        \A i \in 1..(Len(l) - 1) : l[i].date <= l[i + 1].date}

\* Variant of deleteBooking: the filter on user_id and the policy are left
\* out.
deleteBookingAnyOwner(table, bookingId, uid) ==
    {r \in table : r.id # bookingId}

\* bookingsService.deleteBooking: delete ... where id = bookingId and
\* user_id = user.id, under the delete policy.
deleteBooking(table, bookingId, uid) ==
    {r \in table : ~(r.id = bookingId /\ r.user_id = uid[1] /\ DeletePolicy(r, uid))}

InitStore ==
    /\ rows = {}
    /\ nextId = 1

(***************************************************************************)
(* The clients: the page holding the bookings list, BookingCalendar with   *)
(* the BookingForm dialog, and MyBookings.                                 *)
(***************************************************************************)
ConflictMsg ==
    "This time slot conflicts with an existing booking. Please choose a different time."

InitClients ==
    /\ bookings = [c \in Clients |-> <<>>]
    /\ loading = [c \in Clients |-> TRUE]
    /\ showBookingForm = [c \in Clients |-> FALSE]
    /\ isSubmitting = [c \in Clients |-> FALSE]
    /\ conflictError = [c \in Clients |-> ""]
    /\ req = [c \in Clients |-> Null]

InitPure ==
    /\ ret = Null
    /\ sheet = <<>>
    /\ local = <<>>
    /\ now = ClockStart
    /\ today = 0
    /\ dayIndex = 0
    /\ options = Null
    /\ call = [date |-> 1, startTime |-> <<2, 0>>, endTime |-> <<2, 0>>]
    /\ existingBookings = <<>>
    /\ hasConflict = Null
    /\ sheetsConflict = Null
    /\ editingBooking = Null
    /\ ownExcluded = Null
    /\ ownIncluded = Null

\* The page's fetchBookings after setLoading(true), getBookings returns:
\* setBookings(fetchedBookings), and setLoading(false) at the end.
fetchBookingsOk(c) ==
    /\ loading[c]
    /\ \E l \in getBookings(rows, user[c]) :
          bookings' = [bookings EXCEPT ![c] = l]
    /\ loading' = [loading EXCEPT ![c] = FALSE]
    /\ UNCHANGED <<tz, dateVars, callVars, sheetVars, pureVars, storeVars, user, showBookingForm, isSubmitting,
                   conflictError, req>>

\* The page's fetchBookings, getBookings throws: the toast, the list is
\* kept, and setLoading(false) at the end.
fetchBookingsError(c) ==
    /\ loading[c]
    /\ loading' = [loading EXCEPT ![c] = FALSE]
    /\ UNCHANGED <<tz, dateVars, callVars, sheetVars, pureVars, storeVars, user, bookings, showBookingForm,
                   isSubmitting, conflictError, req>>

\* BookingCalendar: the "Book" button, setShowBookingForm(true).  The
\* calendar is rendered once the page has loaded.
openBookingForm(c) ==
    /\ ~loading[c]
    /\ ~showBookingForm[c]
    /\ showBookingForm' = [showBookingForm EXCEPT ![c] = TRUE]
    /\ UNCHANGED <<tz, dateVars, callVars, sheetVars, pureVars, storeVars, user, bookings, loading, isSubmitting,
                   conflictError, req>>

\* The dialog is dismissed: setShowBookingForm(false) unmounts BookingForm
\* and its state goes away.
onClose(c) ==
    /\ showBookingForm[c]
    /\ showBookingForm' = [showBookingForm EXCEPT ![c] = FALSE]
    /\ isSubmitting' = [isSubmitting EXCEPT ![c] = FALSE]
    /\ conflictError' = [conflictError EXCEPT ![c] = ""]
    /\ UNCHANGED <<tz, dateVars, callVars, sheetVars, pureVars, storeVars, user, bookings, loading, req>>

\* handleSubmit(onSubmit) reaches onSubmit with data that passed
\* bookingSchema; the submit button is disabled while isSubmitting.  One
\* insert per client is in flight at a time.
CanSubmit(c, data) ==
    /\ showBookingForm[c]
    /\ data \in FormValues
    /\ bookingSchema(data)
    /\ ~isSubmitting[c]
    /\ req[c] = Null

\* BookingForm.onSubmit, signed out: a toast, and return.
onSubmitNoUser(c, data) ==
    /\ CanSubmit(c, data)
    /\ user[c] = Null
    /\ UNCHANGED vars

\* Variant of FormHasConflict: the check is skipped.
FormHasConflictSkipped(c, data) == FALSE

\* The conflict check of onSubmit against the existingBookings prop.
FormHasConflict(c, data) ==
    checkTimeConflict(tz, data.date, data.startTime, data.endTime, bookings[c])

\* BookingForm.onSubmit, conflict found: the error is set and the handler
\* returns before addBooking.
onSubmitConflict(c, data) ==
    /\ CanSubmit(c, data)
    /\ user[c] # Null
    /\ FormHasConflict(c, data)
    /\ conflictError' = [conflictError EXCEPT ![c] = ConflictMsg]
    /\ isSubmitting' = [isSubmitting EXCEPT ![c] = FALSE]
    /\ UNCHANGED <<tz, dateVars, callVars, sheetVars, pureVars, storeVars, user, bookings, loading,
                   showBookingForm, req>>

\* BookingForm.onSubmit, no conflict: addBooking sends the insert and the
\* handler waits for it.
onSubmitSend(c, data) ==
    /\ CanSubmit(c, data)
    /\ user[c] # Null
    /\ ~FormHasConflict(c, data)
    /\ isSubmitting' = [isSubmitting EXCEPT ![c] = TRUE]
    /\ conflictError' = [conflictError EXCEPT ![c] = ""]
    /\ req' = [req EXCEPT ![c] = Some([data |-> data, userId |-> user[c][1]])]
    /\ UNCHANGED <<tz, dateVars, callVars, sheetVars, pureVars, storeVars, user, bookings, loading,
                   showBookingForm>>

\* Variant of addBookingOk: the new booking is pushed onto the list in place
\* and no fetch is started.
addBookingOkPatch(c) ==
    /\ req[c] # Null
    /\ nextId <= MaxRows
    /\ InsertPolicy(InsertedRow(req[c][1].data, req[c][1].userId, nextId), user[c])
    /\ rows' = rows \cup {InsertedRow(req[c][1].data, req[c][1].userId, nextId)}
    /\ nextId' = nextId + 1
    /\ req' = [req EXCEPT ![c] = Null]
    /\ bookings' = [bookings EXCEPT ![c] =
          Append(@, ToBookingSlot(InsertedRow(req[c][1].data, req[c][1].userId, nextId)))]
    /\ showBookingForm' = [showBookingForm EXCEPT ![c] = FALSE]
    /\ isSubmitting' = [isSubmitting EXCEPT ![c] = FALSE]
    /\ conflictError' = [conflictError EXCEPT ![c] = ""]
    /\ UNCHANGED <<tz, dateVars, callVars, sheetVars, pureVars, user, loading>>

\* The insert is carried out and onSubmit resumes: toast, onBookingAdded
\* (the page fetches again: setLoading(true), the calendar and the form are
\* replaced by the loader), onClose, form.reset, setIsSubmitting(false).
addBookingOk(c) ==
    /\ req[c] # Null
    /\ nextId <= MaxRows
    /\ InsertPolicy(InsertedRow(req[c][1].data, req[c][1].userId, nextId), user[c])
    /\ rows' = rows \cup {InsertedRow(req[c][1].data, req[c][1].userId, nextId)}
    /\ nextId' = nextId + 1
    /\ req' = [req EXCEPT ![c] = Null]
    /\ loading' = [loading EXCEPT ![c] = TRUE]
    /\ showBookingForm' = [showBookingForm EXCEPT ![c] = FALSE]
    /\ isSubmitting' = [isSubmitting EXCEPT ![c] = FALSE]
    /\ conflictError' = [conflictError EXCEPT ![c] = ""]
    /\ UNCHANGED <<tz, dateVars, callVars, sheetVars, pureVars, user, bookings>>

\* Variant of addBookingError: no `finally`, isSubmitting is left as it is.
addBookingErrorStuck(c) ==
    /\ req[c] # Null
    /\ req' = [req EXCEPT ![c] = Null]
    /\ UNCHANGED <<tz, dateVars, callVars, sheetVars, pureVars, storeVars, user,
                   bookings, loading, showBookingForm, conflictError, isSubmitting>>

\* The insert fails (the store is unreachable or rejects it): addBooking
\* throws, onSubmit shows the failure toast and ends with
\* setIsSubmitting(false).
addBookingError(c) ==
    /\ req[c] # Null
    /\ req' = [req EXCEPT ![c] = Null]
    /\ isSubmitting' = [isSubmitting EXCEPT ![c] = FALSE]
    /\ UNCHANGED <<tz, dateVars, callVars, sheetVars, pureVars, storeVars, user, bookings, loading,
                   showBookingForm, conflictError>>

\* MyBookings lists bookings.filter(booking => booking.user_id === user?.id).
userBookings(c) ==
    SelectSeq(bookings[c], LAMBDA b : user[c] # Null /\ b.user_id = user[c][1])

\* MyBookings.handleDeleteBooking on one of the listed bookings: the delete
\* is carried out, then the toast and onBookingUpdated (the page fetches
\* again).  The list is out of reach behind the open dialog.
handleDeleteBookingOk(c) ==
    /\ ~loading[c]
    /\ ~showBookingForm[c]
    /\ \E i \in 1..Len(userBookings(c)) :
          rows' = deleteBooking(rows, userBookings(c)[i].id, user[c])
    /\ loading' = [loading EXCEPT ![c] = TRUE]
    /\ UNCHANGED <<tz, dateVars, callVars, sheetVars, pureVars, nextId, user, bookings, showBookingForm,
                   isSubmitting, conflictError, req>>

\* MyBookings.handleDeleteBooking, deleteBooking throws: the failure toast.
handleDeleteBookingError(c) ==
    /\ ~loading[c]
    /\ ~showBookingForm[c]
    /\ Len(userBookings(c)) > 0
    /\ UNCHANGED vars

(***************************************************************************)
(* Spec: client c1, and the other principals of the table.                 *)
(***************************************************************************)
Init ==
    /\ tz = NoDST
    /\ InitPure
    /\ script = Null
    /\ InitStore
    /\ InitClients
    /\ user \in [Clients -> {Null, Some("u1")}]
    /\ user["c2"] = Null

\* Another session, signed in as u2, inserts a row of its own
\* (bookingsService.addBooking under the insert policy).
otherAddBooking(data) ==
    /\ nextId <= MaxRows
    /\ InsertPolicy(InsertedRow(data, "u2", nextId), Some("u2"))
    /\ rows' = rows \cup {InsertedRow(data, "u2", nextId)}
    /\ nextId' = nextId + 1
    /\ UNCHANGED <<tz, dateVars, callVars, sheetVars, pureVars, clientVars>>

\* Another session, signed in as u2, deletes a row of its own
\* (bookingsService.deleteBooking under the delete policy).
otherDeleteBooking(bookingId) ==
    /\ rows' = deleteBooking(rows, bookingId, Some("u2"))
    /\ rows' # rows
    /\ UNCHANGED <<tz, dateVars, callVars, sheetVars, pureVars, nextId, clientVars>>

Next ==
    \/ fetchBookingsOk("c1")
    \/ fetchBookingsError("c1")
    \/ openBookingForm("c1")
    \/ onClose("c1")
    \/ \E data \in Submissions : onSubmitNoUser("c1", data)
    \/ \E data \in Submissions : onSubmitConflict("c1", data)
    \/ \E data \in Submissions : onSubmitSend("c1", data)
    \/ addBookingOk("c1")
    \/ addBookingError("c1")
    \/ handleDeleteBookingOk("c1")
    \/ handleDeleteBookingError("c1")
    \/ \E data \in Submissions : otherAddBooking(data)
    \/ \E r \in rows : otherDeleteBooking(r.id)

Spec == Init /\ [][Next]_vars

(***************************************************************************)
(* SpecRace: two signed-in clients creating bookings.                      *)
(***************************************************************************)
InitRace ==
    /\ tz = NoDST
    /\ InitPure
    /\ script = Null
    /\ InitStore
    /\ InitClients
    /\ user = [c \in Clients |-> Some(UserOf(c))]

NextRace ==
    \/ \E c \in Clients : fetchBookingsOk(c)
    \/ \E c \in Clients : openBookingForm(c)
    \/ \E c \in Clients, data \in Submissions : onSubmitConflict(c, data)
    \/ \E c \in Clients, data \in Submissions : onSubmitSend(c, data)
    \/ \E c \in Clients : addBookingOk(c)

SpecRace == InitRace /\ [][NextRace]_vars

(***************************************************************************)
(* SpecScenario: client c1 creates A, tries B, deletes A, creates B.       *)
(* Every fetch succeeds.                                                   *)
(***************************************************************************)
\* Clock overlap of two form values of one date.
FormValuesOverlap(a, b) ==
    /\ a.date = b.date
    /\ StringLT(a.startTime, b.endTime)
    /\ StringLT(b.startTime, a.endTime)

\* The pairs (A, B) the scenario is run on; among them A = 09:00-10:00,
\* B = 09:30-10:30.
Scripts ==
    {sc \in [a : FormValues, b : FormValues] :
        /\ bookingSchema(sc.a) /\ sc.a.title = "Staff Meeting"
        /\ bookingSchema(sc.b) /\ sc.b.title = "Budget Review"
        /\ sc.a.email = "u1@org" /\ sc.b.email = "u1@org"
        /\ FormValuesOverlap(sc.a, sc.b)}

InitScenario ==
    /\ tz = NoDST
    /\ InitPure
    /\ script \in {Some(sc) : sc \in Scripts}
    /\ InitStore
    /\ InitClients
    /\ user = [c \in Clients |-> IF c = "c1" THEN Some("u1") ELSE Null]

\* The form is submitted with A; A has not been created yet.
SubmitA ==
    /\ nextId = 1
    /\ onSubmitSend("c1", script[1].a)

\* The form is submitted with B after A was created.
SubmitB ==
    /\ nextId = 2
    /\ \/ onSubmitConflict("c1", script[1].b)
       \/ onSubmitSend("c1", script[1].b)

\* A is deleted from the list of own bookings.
DeleteA ==
    /\ nextId = 2
    /\ handleDeleteBookingOk("c1")

NextScenario ==
    \/ fetchBookingsOk("c1")
    \/ openBookingForm("c1")
    \/ onClose("c1")
    \/ SubmitA
    \/ SubmitB
    \/ addBookingOk("c1")
    \/ DeleteA

SpecScenario == InitScenario /\ [][NextScenario]_vars

(***************************************************************************)
(* Updates: bookingsService.updateBooking and the two edit dialogs.        *)
(***************************************************************************)
\* Policy "Users can update their own bookings": TO authenticated
\* USING (auth.uid() = user_id).
UpdatePolicy(row, uid) == uid # Null /\ uid[1] = row.user_id

\* The rows an update ... .eq('id', bookingId).eq('user_id', userId) acts on
\* for the session uid.
UpdateMatches(table, bookingId, userId, uid) ==
    {r \in table : r.id = bookingId /\ r.user_id = userId /\ UpdatePolicy(r, uid)}

\* The columns updateBooking writes.
UpdatedRow(r, data) ==
    [r EXCEPT !.date = data.date,
              !.start_time = ToTimeColumn(data.startTime),
              !.end_time = ToTimeColumn(data.endTime),
              !.title = data.title,
              !.email = data.email]

\* Variant of updateBooking: the filter on user_id and the policy are left
\* out.
updateBookingAnyOwner(table, bookingId, data, userId, uid) ==
    {IF r.id = bookingId THEN UpdatedRow(r, data) ELSE r : r \in table}

\* Variant of updateBooking: an upsert, a row is created when no row
\* carries the id.
updateBookingUpsert(table, bookingId, data, userId, uid) ==
    IF \A r \in table : r.id # bookingId
    THEN table \cup {InsertedRow(data, userId, bookingId)}
    ELSE {IF r \in UpdateMatches(table, bookingId, userId, uid)
             THEN UpdatedRow(r, data) ELSE r : r \in table}

\* bookingsService.updateBooking(bookingId, bookingData, userId) by the
\* session uid: the table after the update.
updateBooking(table, bookingId, data, userId, uid) ==
    {IF r \in UpdateMatches(table, bookingId, userId, uid)
        THEN UpdatedRow(r, data) ELSE r : r \in table}

\* String comparison a < b of time strings that are "HH:MM" or "HH:MM:SS":
\* field by field, and a proper prefix is smaller.
TimeStringLT(a, b) ==
    \/ a[1] < b[1]
    \/ a[1] = b[1] /\ a[2] < b[2]
    \/ a[1] = b[1] /\ a[2] = b[2] /\ Len(a) < Len(b)

\* editBookingSchema: the refinement startTime < endTime.
editBookingSchema(data) == TimeStringLT(data.startTime, data.endTime)

\* What the edit form of MyBookings can hold for booking x: the values of
\* handleEditBooking's form.reset (the stored strings), each of date and
\* times possibly replaced through its select.
EditValues(x) ==
    [date : FormDates \cup {x.date},
     startTime : UITimes \cup {x.startTime},
     endTime : UITimes \cup {x.endTime},
     title : {x.title}, email : {x.email}]

\* The conflict check of MyBookings (checkConflictInRealTime and the final
\* check of handleUpdateBooking) for booking x and form values data.
EditHasConflict(c, x, data) ==
    checkTimeConflict(tz, data.date, data.startTime, data.endTime,
                      otherBookings(bookings[c], x))

\* The edit dialog of MyBookings is within reach: the page has loaded, the
\* create dialog is closed, the user is signed in, no request of this
\* client is in flight.
CanEdit(c) ==
    /\ ~loading[c]
    /\ ~showBookingForm[c]
    /\ user[c] # Null
    /\ req[c] = Null

\* MyBookings: handleEditBooking(x), the form filled with data, then
\* handleUpdateBooking(data) with no conflict: updateBooking is carried out,
\* then the toast, setEditingBooking(null) and onBookingUpdated (the page
\* fetches again).
handleUpdateBookingOk(c) ==
    /\ CanEdit(c)
    /\ \E i \in 1..Len(userBookings(c)) :
          LET x == userBookings(c)[i] IN
          \E data \in EditValues(x) :
             /\ editBookingSchema(data)
             /\ ~EditHasConflict(c, x, data)
             /\ rows' = updateBooking(rows, x.id, data, user[c][1], user[c])
    /\ loading' = [loading EXCEPT ![c] = TRUE]
    /\ UNCHANGED <<tz, dateVars, callVars, sheetVars, pureVars, nextId, user, bookings,
                   showBookingForm, isSubmitting, conflictError, req>>

\* MyBookings: the form holds values that conflict: the error is shown, the
\* Update button is disabled and handleUpdateBooking returns before
\* updateBooking.
handleUpdateBookingConflict(c) ==
    /\ CanEdit(c)
    /\ \E i \in 1..Len(userBookings(c)) :
          LET x == userBookings(c)[i] IN
          \E data \in EditValues(x) :
             editBookingSchema(data) /\ EditHasConflict(c, x, data)
    /\ UNCHANGED vars

\* Dashboard lists bookings.filter(booking => booking.email === user?.email).
dashboardBookings(c) ==
    SelectSeq(bookings[c],
              LAMBDA b : user[c] # Null /\ b.email = UserEmail(user[c][1]))

\* What the edit form of Dashboard can hold for booking x: date and time
\* inputs without validation; the email is kept.
DashboardValues(x) ==
    [date : FormDates \cup {x.date},
     startTime : UITimes \cup {x.startTime},
     endTime : UITimes \cup {x.endTime},
     title : {x.title}, email : {x.email}]

\* Dashboard: handleEditBooking(x), the form edited, handleUpdateBooking:
\* updateBooking is carried out without a conflict check, then the toast,
\* setEditingBooking(null) and onBookingUpdated.
dashboardUpdateBookingOk(c) ==
    /\ CanEdit(c)
    /\ \E i \in 1..Len(dashboardBookings(c)) :
          LET x == dashboardBookings(c)[i] IN
          \E data \in DashboardValues(x) :
             rows' = updateBooking(rows, x.id, data, user[c][1], user[c])
    /\ loading' = [loading EXCEPT ![c] = TRUE]
    /\ UNCHANGED <<tz, dateVars, callVars, sheetVars, pureVars, nextId, user, bookings,
                   showBookingForm, isSubmitting, conflictError, req>>

(***************************************************************************)
(* SpecSerial: client c1 creates and edits bookings, one mutation at a     *)
(* time; every mutation is followed by a fetch, and every fetch succeeds.  *)
(***************************************************************************)
InitSerial ==
    /\ tz = NoDST
    /\ InitPure
    /\ script = Null
    /\ InitStore
    /\ InitClients
    /\ user = [c \in Clients |-> IF c = "c1" THEN Some("u1") ELSE Null]

NextSerial ==
    \/ fetchBookingsOk("c1")
    \/ openBookingForm("c1")
    \/ onClose("c1")
    \/ \E data \in Submissions : onSubmitConflict("c1", data)
    \/ \E data \in Submissions : onSubmitSend("c1", data)
    \/ addBookingOk("c1")
    \/ handleUpdateBookingOk("c1")
    \/ handleUpdateBookingConflict("c1")
    \/ dashboardUpdateBookingOk("c1")

SpecSerial == InitSerial /\ [][NextSerial]_vars

(***************************************************************************)
(* SpecMutate: client c1 alone creates, edits and deletes bookings through *)
(* BookingForm and MyBookings; every write may fail, every fetch succeeds.  *)
(***************************************************************************)
\* MyBookings.handleUpdateBooking, updateBooking throws: the failure toast;
\* the dialog stays open and nothing else changes.
handleUpdateBookingError(c) ==
    /\ CanEdit(c)
    /\ \E i \in 1..Len(userBookings(c)) :
          LET x == userBookings(c)[i] IN
          \E data \in EditValues(x) :
             editBookingSchema(data) /\ ~EditHasConflict(c, x, data)
    /\ UNCHANGED vars

\* Dashboard.handleUpdateBooking, updateBooking throws: the failure toast.
dashboardUpdateBookingError(c) ==
    /\ CanEdit(c)
    /\ Len(dashboardBookings(c)) > 0
    /\ UNCHANGED vars

\* Dashboard.handleDeleteBooking on one of the listed bookings: the delete
\* is carried out, then the toast and onBookingUpdated.
dashboardDeleteBookingOk(c) ==
    /\ CanEdit(c)
    /\ \E i \in 1..Len(dashboardBookings(c)) :
          rows' = deleteBooking(rows, dashboardBookings(c)[i].id, user[c])
    /\ loading' = [loading EXCEPT ![c] = TRUE]
    /\ UNCHANGED <<tz, dateVars, callVars, sheetVars, pureVars, nextId, user, bookings,
                   showBookingForm, isSubmitting, conflictError, req>>

\* Dashboard.handleDeleteBooking, deleteBooking throws: the failure toast.
dashboardDeleteBookingError(c) ==
    /\ CanEdit(c)
    /\ Len(dashboardBookings(c)) > 0
    /\ UNCHANGED vars

NextMutate ==
    \/ fetchBookingsOk("c1")
    \/ openBookingForm("c1")
    \/ onClose("c1")
    \/ \E data \in Submissions : onSubmitConflict("c1", data)
    \/ \E data \in Submissions : onSubmitSend("c1", data)
    \/ addBookingOk("c1")
    \/ addBookingError("c1")
    \/ handleUpdateBookingOk("c1")
    \/ handleUpdateBookingConflict("c1")
    \/ handleUpdateBookingError("c1")
    \/ handleDeleteBookingOk("c1")
    \/ handleDeleteBookingError("c1")

SpecMutate == InitSerial /\ [][NextMutate]_vars

(***************************************************************************)
(* SpecViews: client c1 signed in as u1 uses MyBookings and Dashboard      *)
(* while it and u2 create bookings; the email of a booking is what its     *)
(* creator typed into the form.                                            *)
(***************************************************************************)
\* What the users type: one slot, either email.
ViewInputs ==
    {data \in FormValues :
        /\ data.startTime = SlotTime(2)
        /\ data.endTime = SlotTime(3)
        /\ data.title = "Staff Meeting"}

NextViews ==
    \/ fetchBookingsOk("c1")
    \/ openBookingForm("c1")
    \/ \E data \in ViewInputs : onSubmitConflict("c1", data)
    \/ \E data \in ViewInputs : onSubmitSend("c1", data)
    \/ addBookingOk("c1")
    \/ \E data \in ViewInputs : otherAddBooking(data)
    \/ handleUpdateBookingOk("c1")
    \/ handleDeleteBookingOk("c1")
    \/ dashboardUpdateBookingOk("c1")
    \/ dashboardUpdateBookingError("c1")
    \/ dashboardDeleteBookingOk("c1")
    \/ dashboardDeleteBookingError("c1")

SpecViews == InitSerial /\ [][NextViews]_vars

(***************************************************************************)
(* SpecRepo: the operations of bookingsService called one after another    *)
(* by the two clients, with any id and owner argument; ret records the     *)
(* last call and what it returned.                                         *)
(***************************************************************************)
Users == {"u1", "u2"}

\* The ids a caller may pass: those the table hands out.
RowIds == 1..MaxRows

\* The form values passed to addBooking and updateBooking here.
RepoInputs == {data \in Submissions : data.startTime = SlotTime(2)}

\* The record of a call: the operation, the calling client, the id passed,
\* what the promise did ("true": resolved with true, "throw": rejected),
\* the number of rows the statement acted on and the number of requests
\* sent to the bookings table.
Returned(op, c, id, result, matched, requests) ==
    Some([op |-> op, by |-> c, id |-> id, result |-> result,
          matched |-> matched, requests |-> requests])

InitRepo ==
    /\ tz = NoDST
    /\ InitPure
    /\ script = Null
    /\ InitStore
    /\ InitClients
    /\ user \in [Clients -> {Null} \cup {Some(u) : u \in Users}]
    /\ \A c \in Clients : user[c] \in {Null, Some(UserOf(c))}

\* bookingsService.addBooking(data, userId): the insert is carried out if
\* the policy admits the row, else the store answers with an error and
\* addBooking throws it.
callAddBooking(c, data, userId) ==
    /\ nextId <= MaxRows
    /\ IF InsertPolicy(InsertedRow(data, userId, nextId), user[c])
       THEN /\ rows' = rows \cup {InsertedRow(data, userId, nextId)}
            /\ nextId' = nextId + 1
            /\ ret' = Returned("add", c, nextId, "true", 1, 1)
       ELSE /\ UNCHANGED storeVars
            /\ ret' = Returned("add", c, 0, "throw", 0, 1)
    /\ UNCHANGED <<tz, dateVars, sheetVars, pureVars, clientVars>>

\* bookingsService.updateBooking(bookingId, data, userId): the update is
\* carried out on the rows it matches; the store reports no error when it
\* matches none, and updateBooking returns true.
callUpdateBooking(c, bookingId, data, userId) ==
    /\ rows' = updateBooking(rows, bookingId, data, userId, user[c])
    /\ ret' = Returned("update", c, bookingId, "true",
                       Cardinality(UpdateMatches(rows, bookingId, userId, user[c])), 1)
    /\ UNCHANGED <<tz, dateVars, sheetVars, pureVars, nextId, clientVars>>

\* bookingsService.deleteBooking(bookingId): without a session it throws
\* 'User not authenticated' before any request to the table; else the
\* delete is carried out on the rows it matches, the store reports no error
\* when it matches none, and deleteBooking returns true.
callDeleteBooking(c, bookingId) ==
    /\ IF user[c] = Null
       THEN /\ UNCHANGED rows
            /\ ret' = Returned("delete", c, bookingId, "throw", 0, 0)
       ELSE /\ rows' = deleteBooking(rows, bookingId, user[c])
            /\ ret' = Returned("delete", c, bookingId, "true",
                               Cardinality(rows \ deleteBooking(rows, bookingId, user[c])), 1)
    /\ UNCHANGED <<tz, dateVars, sheetVars, pureVars, nextId, clientVars>>

\* The store is unreachable or answers with an error: `if (error) throw
\* error`, caught, logged and thrown again.
callStoreError(c, op) ==
    /\ op = "delete" => user[c] # Null
    /\ ret' = Returned(op, c, 0, "throw", 0, 1)
    /\ UNCHANGED <<tz, dateVars, sheetVars, pureVars, storeVars, clientVars>>

NextRepo ==
    \/ \E c \in Clients, data \in RepoInputs, u \in Users : callAddBooking(c, data, u)
    \/ \E c \in Clients, id \in RowIds, data \in RepoInputs, u \in Users :
          callUpdateBooking(c, id, data, u)
    \/ \E c \in Clients, id \in RowIds : callDeleteBooking(c, id)
    \/ \E c \in Clients, op \in {"add", "update", "delete"} :
          callStoreError(c, op)

SpecRepo == InitRepo /\ [][NextRepo]_vars

(***************************************************************************)
(* SpecSheets: SheetsService over the spreadsheet and localStorage, and    *)
(* the Index page that lists what getBookings returns.                     *)
(*   A row of the sheet is the tuple of its cells A..I: id, date,          *)
(*   startTime, endTime, title, bookedBy, email, department, createdAt.    *)
(*   An id `booking-<n>` is Some(n), an empty cell is Null.                *)
(***************************************************************************)
\* Milliseconds that pass in SpecSheets.
MaxTicks == 2

\* RANGE = 'Bookings!A:H': the columns a read returns.
RangeColumns == 8

\* The page that calls SheetsService.
IndexPage == "c1"

\* The bookings handed to SheetsService.addBooking: one slot on either date.
SheetsInputs ==
    {data \in [date : Dates, startTime : {SlotTime(2)}, endTime : {SlotTime(3)},
               title : {"Staff Meeting"}, email : {"u1@org"}] : TRUE}

\* newBooking of SheetsService.addBooking: id `booking-${Date.now()}`, the
\* form data, createdAt new Date().toISOString().
newBooking(data, t) ==
    [id |-> Some(t), date |-> data.date, startTime |-> data.startTime,
     endTime |-> data.endTime, title |-> data.title, bookedBy |-> "",
     email |-> data.email, department |-> "", createdAt |-> Some(t)]

\* The values array appended to the sheet.
AppendedRow(b) ==
    <<b.id, b.date, b.startTime, b.endTime, b.title, b.bookedBy, b.email,
      b.department, b.createdAt>>

\* A row typed into the sheet by hand, the id left empty.
TypedRow(data) ==
    <<Null, data.date, data.startTime, data.endTime, data.title, "",
      data.email, "", Null>>

\* The cells of a row a read of RANGE returns.
ReadRange(row) == SubSeq(row, 1, RangeColumns)

\* The mapping of SheetsService.getBookings from the cells of a row, its
\* index and the time of the read to a BookingSlot: `row[0] ||
\* booking-${index}` and `row[8] || new Date().toISOString()`.
SheetToBookingSlot(cells, index, t) ==
    [id |-> IF cells[1] # Null THEN cells[1] ELSE Some(index),
     date |-> cells[2], startTime |-> cells[3], endTime |-> cells[4],
     title |-> cells[5], bookedBy |-> cells[6], email |-> cells[7],
     department |-> cells[8],
     createdAt |-> IF Len(cells) >= 9 /\ cells[9] # Null THEN cells[9] ELSE Some(t)]

\* SheetsService.getBookings, the request answered: data.values.slice(1)
\* mapped, in the order of the sheet.
sheetsGetBookings(values, t) ==
    [i \in 1..Len(values) |-> SheetToBookingSlot(ReadRange(values[i]), i - 1, t)]

\* The record of a call of SheetsService: the operation, whether the
\* request failed, what the promise did ("true", "list" or "throw") and the
\* number of requests sent.
SheetsReturned(op, failed, result, requests) ==
    Some([op |-> op, by |-> IndexPage, failed |-> failed, result |-> result,
          requests |-> requests])

InitSheets ==
    /\ tz = NoDST
    /\ InitPure
    /\ script = Null
    /\ InitStore
    /\ InitClients
    /\ user = [c \in Clients |-> Null]

\* A millisecond passes.
tick ==
    /\ now < ClockStart + MaxTicks
    /\ now' = now + 1
    /\ UNCHANGED <<tz, dateVars, callVars, sheet, local, pureVars, storeVars, clientVars>>

\* Someone types a row into the sheet.
sheetRowTyped(data) ==
    /\ Len(sheet) + Len(local) < MaxRows
    /\ sheet' = Append(sheet, TypedRow(data))
    /\ UNCHANGED <<tz, dateVars, callVars, local, now, pureVars, storeVars, clientVars>>

\* SheetsService.addBooking, the append request answered ok: return true.
sheetsAddBookingOk(data) ==
    /\ Len(sheet) + Len(local) < MaxRows
    /\ sheet' = Append(sheet, AppendedRow(newBooking(data, now)))
    /\ ret' = SheetsReturned("add", FALSE, "true", 1)
    /\ UNCHANGED <<tz, dateVars, local, now, pureVars, storeVars, clientVars>>

\* SheetsService.addBooking, the request fails or is answered not ok: the
\* catch block logs, addLocalBooking(newBooking), return true.
sheetsAddBookingFailed(data) ==
    /\ Len(sheet) + Len(local) < MaxRows
    /\ local' = Append(local, newBooking(data, now))
    /\ ret' = SheetsReturned("add", TRUE, "true", 1)
    /\ UNCHANGED <<tz, dateVars, sheet, now, pureVars, storeVars, clientVars>>

\* Index.fetchBookings, the read request answered ok: setLoading(true),
\* getBookings returns the mapped rows, setBookings, setLoading(false).
indexFetchBookingsOk ==
    /\ bookings' = [bookings EXCEPT ![IndexPage] = sheetsGetBookings(sheet, now)]
    /\ loading' = [loading EXCEPT ![IndexPage] = FALSE]
    /\ ret' = SheetsReturned("list", FALSE, "list", 1)
    /\ UNCHANGED <<tz, dateVars, sheetVars, pureVars, storeVars, user, showBookingForm,
                   isSubmitting, conflictError, req>>

\* Index.fetchBookings, the read request fails or is answered not ok:
\* getBookings logs and returns getLocalBookings(); fetchBookings sets the
\* list to it, its own catch block (the toast) is not entered.
indexFetchBookingsFailed ==
    /\ bookings' = [bookings EXCEPT ![IndexPage] = local]
    /\ loading' = [loading EXCEPT ![IndexPage] = FALSE]
    /\ ret' = SheetsReturned("list", TRUE, "list", 1)
    /\ UNCHANGED <<tz, dateVars, sheetVars, pureVars, storeVars, user, showBookingForm,
                   isSubmitting, conflictError, req>>

NextSheets ==
    \/ tick
    \/ \E data \in SheetsInputs : sheetRowTyped(data)
    \/ \E data \in SheetsInputs : sheetsAddBookingOk(data)
    \/ \E data \in SheetsInputs : sheetsAddBookingFailed(data)
    \/ indexFetchBookingsOk
    \/ indexFetchBookingsFailed

SpecSheets == InitSheets /\ [][NextSheets]_vars

(***************************************************************************)
(* SpecWeekday: getWeekdayOptions of BookingForm and MyBookings, one loop  *)
(* iteration per step.  A date is its day number; day 0 is a Sunday.       *)
(***************************************************************************)
\* `for (let i = 0; i < 28; i++)`.
DaysAhead == 28

\* The days on which getWeekdayOptions is called: 0 .. MaxToday.
MaxToday == 6

\* Date.prototype.getDay(): 0 for Sunday .. 6 for Saturday.
getDay(d) == d % 7

\* date.setDate(today.getDate() + i) on a copy of today: the day i days on.
AddDays(t, n) == t + n

\* Variant of IsWeekday: the lower limit is 0, Sunday passes.
IsWeekdayFromSunday(d) == getDay(d) >= 0 /\ getDay(d) <= 5

\* `date.getDay() >= 1 && date.getDay() <= 5`.
IsWeekday(d) == getDay(d) >= 1 /\ getDay(d) <= 5

InitWeekday ==
    /\ tz = NoDST
    /\ InitPure
    /\ script = Null
    /\ InitStore
    /\ InitClients
    /\ user = [c \in Clients |-> Null]

\* A render calls getWeekdayOptions() on day t: options = [], today = new
\* Date(), i = 0.
getWeekdayOptionsCall(t) ==
    /\ options = Null \/ dayIndex = DaysAhead
    /\ today' = t
    /\ dayIndex' = 0
    /\ options' = Some(<<>>)
    /\ UNCHANGED <<tz, callVars, sheetVars, pureVars, storeVars, clientVars>>

\* One iteration of the loop: the date i days after today is pushed if it
\* is a weekday; i++.
getWeekdayOptionsStep ==
    /\ options # Null
    /\ dayIndex < DaysAhead
    /\ options' = IF IsWeekday(AddDays(today, dayIndex))
                  THEN Some(Append(options[1], AddDays(today, dayIndex)))
                  ELSE options
    /\ dayIndex' = dayIndex + 1
    /\ UNCHANGED <<tz, today, callVars, sheetVars, pureVars, storeVars, clientVars>>

NextWeekday ==
    \/ \E t \in 0..MaxToday : getWeekdayOptionsCall(t)
    \/ getWeekdayOptionsStep

SpecWeekday == InitWeekday /\ [][NextWeekday]_vars

(***************************************************************************)
(* SpecConflict: the checkers called on drawn arguments.                   *)
(***************************************************************************)
\* Well-formed stored slots: startTime < endTime on the clock.
ClockLT(a, b) == a[1] < b[1] \/ (a[1] = b[1] /\ a[2] < b[2])

SlotShapes ==
    {sh \in [date : Dates, startTime : CheckTimes, endTime : CheckTimes] :
        ClockLT(sh.startTime, sh.endTime)}

\* Lists of up to MaxExisting bookings; ids are unique (primary key).
RECURSIVE BookingLists(_)
BookingLists(n) ==
    IF n = 0 THEN {<<>>}
    ELSE BookingLists(n - 1) \cup
         {Append(l, [id |-> Len(l) + 1, date |-> sh.date,
                     startTime |-> sh.startTime, endTime |-> sh.endTime]) :
            l \in {m \in BookingLists(n - 1) : Len(m) = n - 1}, sh \in SlotShapes}

InitConflict ==
    /\ tz \in Zones
    /\ call \in [date : Dates, startTime : CheckTimes, endTime : CheckTimes]
    /\ existingBookings \in BookingLists(MaxExisting)
    /\ hasConflict = Null
    /\ sheetsConflict = Null
    /\ editingBooking = Null
    /\ ownExcluded = Null
    /\ ownIncluded = Null
    /\ script = Null
    /\ ret = Null
    /\ sheet = <<>>
    /\ local = <<>>
    /\ now = ClockStart
    /\ today = 0
    /\ dayIndex = 0
    /\ options = Null
    /\ InitStore
    /\ InitClients
    /\ user = [c \in Clients |-> Null]

\* One call of each checker on the drawn arguments.
CallCheck ==
    /\ hasConflict = Null
    /\ editingBooking = Null
    /\ hasConflict' = Some(checkTimeConflict(tz, call.date, call.startTime,
                                             call.endTime, existingBookings))
    /\ sheetsConflict' = Some(sheetsCheckTimeConflict(call.date, call.startTime,
                                                      call.endTime, existingBookings))
    /\ UNCHANGED <<tz, dateVars, callVars, sheetVars, call, existingBookings, editingBooking, ownExcluded,
                   ownIncluded, script, storeVars, clientVars>>

\* The caller hands over the same bookings in another order.
Reorder ==
    /\ hasConflict # Null
    /\ \E i \in 1..(Len(existingBookings) - 1) :
          existingBookings' =
              [existingBookings EXCEPT ![i] = existingBookings[i + 1],
                                       ![i + 1] = existingBookings[i]]
    /\ existingBookings' # existingBookings
    /\ UNCHANGED <<tz, dateVars, callVars, sheetVars, call, hasConflict, sheetsConflict, editingBooking,
                   ownExcluded, ownIncluded, script, storeVars, clientVars>>

\* MyBookings.handleEditBooking(booking) followed by checkConflictInRealTime
\* on the unchanged form values; ownIncluded is the same check without the
\* filter.
EditOwn ==
    /\ editingBooking = Null
    /\ hasConflict = Null
    /\ \E i \in 1..Len(existingBookings) :
          LET x == existingBookings[i] IN
          /\ editingBooking' = Some(x)
          /\ ownExcluded' = Some(checkTimeConflict(tz, x.date, x.startTime, x.endTime,
                                                   otherBookings(existingBookings, x)))
          /\ ownIncluded' = Some(checkTimeConflict(tz, x.date, x.startTime, x.endTime,
                                                   existingBookings))
    /\ UNCHANGED <<tz, dateVars, callVars, sheetVars, call, existingBookings, hasConflict, sheetsConflict,
                   script, storeVars, clientVars>>

NextConflict == CallCheck \/ Reorder \/ EditOwn

SpecConflict == InitConflict /\ [][NextConflict]_vars

(***************************************************************************)
(* SpecGrid: the two checkers called on slots of the forms' time grid,     *)
(* 08:00 .. 18:00, in every host zone.                                     *)
(***************************************************************************)
\* The grid times used: the first two and the last two of timeSlots.
GridTimes == {SlotTime(i) : i \in {0, 1, 19, 20}}

\* Existing bookings on the grid, times as the TIME columns return them.
GridShapes ==
    {sh \in [date : Dates, startTime : {ToTimeColumn(t) : t \in GridTimes},
             endTime : {ToTimeColumn(t) : t \in GridTimes}] :
        ClockLT(sh.startTime, sh.endTime)}

\* Lists of up to n bookings on the grid; ids are unique (primary key).
RECURSIVE GridLists(_)
GridLists(n) ==
    IF n = 0 THEN {<<>>}
    ELSE GridLists(n - 1) \cup
         {Append(l, [id |-> Len(l) + 1, date |-> sh.date,
                     startTime |-> sh.startTime, endTime |-> sh.endTime]) :
            l \in {m \in GridLists(n - 1) : Len(m) = n - 1}, sh \in GridShapes}

InitGrid ==
    /\ tz \in Zones
    /\ InitPure
    /\ script = Null
    /\ InitStore
    /\ InitClients
    /\ user = [c \in Clients |-> Null]

\* The arguments of a call are chosen: a date, start and end from the
\* selects of the form, and a list of bookings.
ChooseCall ==
    /\ hasConflict = Null
    /\ existingBookings = <<>>
    /\ \E c \in [date : Dates, startTime : GridTimes, endTime : GridTimes] :
          call' = c
    /\ \E l \in GridLists(MaxExisting) : l # <<>> /\ existingBookings' = l
    /\ UNCHANGED <<tz, dateVars, callVars, sheetVars, hasConflict,
                   sheetsConflict, editingBooking, ownExcluded, ownIncluded,
                   script, storeVars, clientVars>>

NextGrid == ChooseCall \/ CallCheck

SpecGrid == InitGrid /\ [][NextGrid]_vars

(***************************************************************************)
(* Claims about the conflict checkers (SpecConflict).                      *)
(***************************************************************************)
\* Half-open overlap on the clock: the statement the claims measure against.
ClockOverlaps(d, s, e, b) ==
    b.date = d /\ ClockLT(s, b.endTime) /\ ClockLT(b.startTime, e)

Called == hasConflict # Null

SomeClockOverlap ==
    \E i \in 1..Len(existingBookings) :
        ClockOverlaps(call.date, call.startTime, call.endTime, existingBookings[i])

\* C1: for a candidate with start < end and existing bookings with
\* startTime < endTime, each checker returns true iff some existing booking
\* has the candidate's date and overlaps it (start < b.endTime and
\* b.startTime < end).
C1_ConflictIffOverlap ==
    (Called /\ ClockLT(call.startTime, call.endTime)) =>
        /\ hasConflict = Some(SomeClockOverlap)
        /\ sheetsConflict = Some(SomeClockOverlap)

\* C2: a candidate that starts exactly at the end of a same-date booking, or
\* ends exactly at its start, gets false when no other booking overlaps it.
AdjacentTo(i) ==
    LET b == existingBookings[i] IN
    /\ b.date = call.date
    /\ call.startTime = b.endTime \/ call.endTime = b.startTime
    /\ \A j \in 1..Len(existingBookings) :
          j # i => ~ClockOverlaps(call.date, call.startTime, call.endTime,
                                  existingBookings[j])

C2_AdjacentNoConflict ==
    (/\ Called
     /\ ClockLT(call.startTime, call.endTime)
     /\ \E i \in 1..Len(existingBookings) : AdjacentTo(i))
        => hasConflict = Some(FALSE)

\* C3: when every existing booking is on another date than the candidate,
\* the result is false whatever the times are.
AllOtherDates ==
    \A i \in 1..Len(existingBookings) : existingBookings[i].date # call.date

C3_CrossDateNoConflict ==
    (Called /\ AllOtherDates) => hasConflict = Some(FALSE)

C3_Witness ==
    /\ Called
    /\ AllOtherDates
    /\ \E i \in 1..Len(existingBookings) :
          /\ existingBookings[i].startTime = call.startTime
          /\ existingBookings[i].endTime = call.endTime
    /\ hasConflict = Some(FALSE)

\* C4: a same-date booking strictly inside the candidate, or strictly
\* containing the candidate, makes the result true.
StrictlyInside(s1, e1, s2, e2) ==
    ClockLT(s2, s1) /\ ClockLT(s1, e1) /\ ClockLT(e1, e2)

C4_ContainmentConflicts ==
    (/\ Called
     /\ \E i \in 1..Len(existingBookings) :
           LET b == existingBookings[i] IN
           /\ b.date = call.date
           /\ \/ StrictlyInside(b.startTime, b.endTime, call.startTime, call.endTime)
              \/ StrictlyInside(call.startTime, call.endTime, b.startTime, b.endTime))
        => hasConflict = Some(TRUE)

\* C5: with no existing bookings the result is false for every candidate.
C5_EmptyNoConflict ==
    (Called /\ existingBookings = <<>>) => hasConflict = Some(FALSE)

C5_Witness ==
    /\ Called
    /\ existingBookings = <<>>
    /\ ~ClockLT(call.startTime, call.endTime)
    /\ hasConflict = Some(FALSE)

\* C6: a booking X checked with its own unchanged slot reports no conflict
\* against the list without X when no other booking overlaps X, and reports
\* a conflict against the list that still holds X.
C6_SelfExclusion ==
    editingBooking # Null =>
        LET x == editingBooking[1] IN
        /\ (\A i \in 1..Len(existingBookings) :
               existingBookings[i].id # x.id =>
                   ~ClockOverlaps(x.date, x.startTime, x.endTime, existingBookings[i]))
              => ownExcluded = Some(FALSE)
        /\ ownIncluded = Some(TRUE)

\* C7: the result does not depend on the order of the existing bookings nor
\* on calls made in between (the recorded result is what a call on the
\* reordered list returns), and a call leaves its arguments as they were.
C7_OrderIndependent ==
    /\ [](Called =>
            hasConflict = Some(checkTimeConflict(tz, call.date, call.startTime,
                                                 call.endTime, existingBookings)))
    /\ [][(hasConflict = Null /\ hasConflict' # Null)
            => (existingBookings' = existingBookings /\ call' = call)]_vars

IsReordered ==
    \E i \in 1..Len(existingBookings) : existingBookings[i].id # i

C7_Witness ==
    /\ Called
    /\ IsReordered
    /\ hasConflict = Some(TRUE)
    /\ ~OverlapsBooking(tz, call.date, call.startTime, call.endTime,
                        existingBookings[1])

(***************************************************************************)
(* Claims about the form and the table (Spec, SpecScenario, SpecRace).     *)
(***************************************************************************)
\* C8: onSubmit never calls addBooking when checkTimeConflict returns true
\* on the form's existingBookings: a step that sends an insert carries data
\* the check finds free, and a step that sets the conflict error leaves
\* isSubmitting false, no insert in flight and the table as it was.
C8_ConflictBlocksAdd ==
    [][\A c \in Clients :
          /\ (req[c] = Null /\ req'[c] # Null) =>
                ~checkTimeConflict(tz, req'[c][1].data.date,
                                   req'[c][1].data.startTime,
                                   req'[c][1].data.endTime, bookings[c])
          /\ (conflictError[c] # ConflictMsg /\ conflictError'[c] = ConflictMsg) =>
                /\ ~isSubmitting'[c]
                /\ req'[c] = Null
                /\ rows' = rows]_vars

C8_Witness ==
    /\ conflictError["c1"] = ConflictMsg
    /\ ~isSubmitting["c1"]
    /\ req["c1"] = Null
    /\ rows # {}
    /\ \E data \in Submissions : FormHasConflict("c1", data)

\* C9: in the scenario, B is never sent to the repository while A is
\* persisted; once A is deleted (and the list fetched again) a submission
\* of B is not stopped by the conflict check; and the insert that follows
\* leaves B as the persisted booking.
APersisted == InsertedRow(script[1].a, "u1", 1) \in rows

C10_SecondInsertAccepted ==
    \A c \in Clients :
        (req[c] # Null /\ nextId <= MaxRows) => ENABLED addBookingOk(c)

\* Two overlapping bookings of one date, created by the two clients, are
\* persisted.
C10_Witness ==
    \E r1 \in rows, r2 \in rows :
        /\ r1.user_id = "u1"
        /\ r2.user_id = "u2"
        /\ RowsOverlap(r1, r2)

(***************************************************************************)
(* Claims about updates, deletes and the list (SpecSerial, SpecRepo,       *)
(* SpecSheets).                                                            *)
(***************************************************************************)
\* A row whose start is before its end.
RowWellFormed(r) == SecondsOfDay(r.start_time) < SecondsOfDay(r.end_time)

\* C11: with mutations issued one at a time through BookingForm, MyBookings
\* and Dashboard, each followed by a fetch, no two persisted bookings of one
\* date have overlapping [startTime, endTime) intervals.
C11_NoOverlapSerial ==
    \A r1 \in rows, r2 \in rows :
        (r1.id # r2.id /\ RowWellFormed(r1) /\ RowWellFormed(r2))
            => ~RowsOverlap(r1, r2)

\* The principal client c acts as in a repository call, Null when signed out.
Principal(c) == user[c]

\* The rows a call by client c must leave alone: those of another owner.
RowsOfOthers(c) ==
    {r \in rows : Principal(c) = Null \/ r.user_id # Principal(c)[1]}

\* C12: updateBooking(id, data, userId) never changes a booking whose owner
\* differs from the acting principal: in every updateBooking call, whatever
\* id and userId are passed, every row owned by someone else is in the
\* table afterwards with all its fields as before.
C12_UpdateKeepsOthersRows ==
    [][(ret' # Null /\ ret'[1].op = "update")
          => \A r \in RowsOfOthers(ret'[1].by) : r \in rows']_vars

\* A call of updateBooking on a row of another owner has returned and the
\* row is in the table.
C12_Witness ==
    /\ ret # Null
    /\ ret[1].op = "update"
    /\ ret[1].result = "true"
    /\ Principal(ret[1].by) # Null
    /\ \E r \in RowsOfOthers(ret[1].by) : r.id = ret[1].id

\* C13: deleteBooking(id) removes a booking only if the authenticated
\* principal owns it: rows of another owner are never removed by the call,
\* and without a session the call throws and removes nothing.
C13_DeleteOnlyOwn ==
    [][(ret' # Null /\ ret'[1].op = "delete")
          => /\ \A r \in RowsOfOthers(ret'[1].by) : r \in rows'
             /\ Principal(ret'[1].by) = Null
                   => (ret'[1].result = "throw" /\ rows' = rows)]_vars

\* A call of deleteBooking on a row of another owner has returned and the
\* row is in the table.
C13_Witness ==
    /\ ret # Null
    /\ ret[1].op = "delete"
    /\ ret[1].result = "true"
    /\ Principal(ret[1].by) # Null
    /\ \E r \in RowsOfOthers(ret[1].by) : r.id = ret[1].id

\* C14: updateBooking fails with an error whenever no row matches the id and
\* the acting principal; it never returns true having changed no row.
C14_UpdateNoMatchFails ==
    (ret # Null /\ ret[1].op = "update" /\ ret[1].matched = 0)
        => ret[1].result = "throw"

\* C15: deleteBooking of an id that is already deleted, was never present or
\* is not owned by the caller fails with an error; it never returns true
\* having removed no row.
C15_DeleteNoMatchFails ==
    (ret # Null /\ ret[1].op = "delete" /\ ret[1].matched = 0)
        => ret[1].result = "throw"


\* The list the last getBookings call of the Index page returned.
Listed == bookings[IndexPage]

\* C16: getBookings returns the bookings ordered by date ascending: for
\* consecutive elements x, y of the result, x.date <= y.date.
C16_ListSortedByDate ==
    \A i \in 1..(Len(Listed) - 1) : Listed[i].date <= Listed[i + 1].date

\* C17: when the store is unreachable or rejects the query, getBookings
\* fails with an error and returns no list, and Index.fetchBookings leaves
\* its booking list unchanged.
C17_ListFailureSurfaced ==
    [][(ret' # Null /\ ret'[1].op = "list" /\ ret'[1].failed)
          => (ret'[1].result = "throw" /\ bookings' = bookings)]_vars

\* C18: every backend error of an operation is propagated to the caller
\* (the promise rejects, it does not resolve with true or a list), and one
\* call sends at most one request.
C18_ErrorsPropagate ==
    ret # Null =>
        /\ ret[1].requests <= 1
        /\ ret[1].failed => ret[1].result = "throw"

\* C19: ids are unique: no two distinct bookings returned by getBookings
\* share an id, also when two creates happen in the same millisecond and
\* when a stored row has an empty id.
C19_IdsUnique ==
    \A i \in 1..Len(Listed), j \in 1..Len(Listed) :
        i # j => Listed[i].id # Listed[j].id

\* C20: createdAt is set once: a booking read by two successive getBookings
\* calls has the same createdAt in both results.
C20_CreatedAtStable ==
    [][\A i \in 1..Len(bookings[IndexPage]), j \in 1..Len(bookings'[IndexPage]) :
          bookings[IndexPage][i].id = bookings'[IndexPage][j].id
             => bookings[IndexPage][i].createdAt = bookings'[IndexPage][j].createdAt]_vars

(***************************************************************************)
(* Claims about the lifecycle, validation and the views.                   *)
(***************************************************************************)
\* The ids of the rows of a table.
RowIdsOf(table) == {r.id : r \in table}

\* C21: a booking's lifecycle is non-existent -> active -> deleted:
\* updateBooking and deleteBooking never create a record for an id that
\* does not exist, and an id handed out before and no longer in the table
\* (a deleted booking) is not in the table after any later step.
C21_Lifecycle ==
    [][/\ (ret' # Null /\ ret'[1].op \in {"update", "delete"})
             => RowIdsOf(rows') \subseteq RowIdsOf(rows)
       /\ \A id \in RowIds :
             (id < nextId /\ id \notin RowIdsOf(rows)) => id \notin RowIdsOf(rows')]_vars

\* updateBooking has returned for the id of a deleted booking, and the
\* booking is not in the table.
C21_Witness ==
    /\ ret # Null
    /\ ret[1].op = "update"
    /\ ret[1].result = "true"
    /\ ret[1].id < nextId
    /\ ret[1].id \notin RowIdsOf(rows)

\* C22: every booking persisted through the UI satisfies startTime <
\* endTime: no path that reaches the repository (BookingForm create,
\* MyBookings edit, Dashboard edit) writes a row with start >= end.
C22_StartBeforeEnd ==
    \A r \in rows : RowWellFormed(r)

\* C23: after every successful create, update or delete the UI starts a
\* re-fetch of the list and does not patch the list itself: a step that
\* changes the table sets loading and leaves the list alone, the list
\* changes only when a fetch completes, and a failed create starts no fetch
\* and leaves the list alone.
C23_RefetchAfterMutation ==
    [][/\ rows' # rows => (loading'["c1"] /\ bookings' = bookings)
       /\ bookings' # bookings => (loading["c1"] /\ ~loading'["c1"])
       /\ (req["c1"] # Null /\ req'["c1"] = Null /\ rows' = rows)
             => (loading' = loading /\ bookings' = bookings)]_vars

\* A write has been carried out, the fetch that follows it is running and
\* the list is still the one from before the write.
C23_Witness ==
    /\ loading["c1"]
    /\ Len(bookings["c1"]) < Cardinality(rows)

\* C24: every UI path that calls updateBooking first runs checkTimeConflict
\* on the edited (date, start, end) against the current snapshot without the
\* edited booking, and does not call updateBooking when the check returns
\* true: every row an update writes passes that check.
C24_UpdateChecked ==
    [][\A r \in rows' \ rows :
          nextId' = nextId
             => ~checkTimeConflict(tz, r.date, r.start_time, r.end_time,
                                   otherBookings(bookings["c1"], r))]_vars

\* C25: getWeekdayOptions offers only Monday-to-Friday dates, all within the
\* 28 consecutive days starting today, in increasing order and without
\* duplicates, and whatever the day of the week it is called on it returns
\* exactly 20 options.
C25_WeekdayOptions ==
    options # Null =>
        /\ \A k \in 1..Len(options[1]) :
              /\ options[1][k] % 7 \in 1..5
              /\ today <= options[1][k]
              /\ options[1][k] < today + 28
        /\ \A k \in 1..(Len(options[1]) - 1) : options[1][k] < options[1][k + 1]
        /\ dayIndex = 28 => Len(options[1]) = 20

\* getWeekdayOptions has returned for a call made on a Saturday.
C25_Witness ==
    /\ options # Null
    /\ dayIndex = 28
    /\ today % 7 = 6
    /\ Len(options[1]) = 20

\* C26: the two conflict checkers agree: for every date, every start and end
\* on the half-hour grid 08:00..18:00 and every list of existing bookings
\* with such times, bookingsService.checkTimeConflict and
\* SheetsService.checkTimeConflict return the same boolean.
C26_CheckersAgree ==
    hasConflict # Null => hasConflict = sheetsConflict

\* Both checkers were called for a slot on the date the clocks are set
\* forward, and a conflict was found.
C26_Witness ==
    /\ existingBookings # <<>>
    /\ tz # NoDST
    /\ call.date = tz
    /\ hasConflict = Some(TRUE)
    /\ sheetsConflict = Some(TRUE)

Elems(l) == {l[k] : k \in 1..Len(l)}

\* The bookings of the snapshot of client c that its principal owns.
OwnedListed(c) ==
    {b \in Elems(bookings[c]) : user[c] # Null /\ b.user_id = user[c][1]}

\* C28: Edit and Delete controls are offered only for bookings owned by the
\* signed-in principal: the bookings MyBookings lists as the user's own and
\* the bookings Dashboard lists as the user's own are exactly those with
\* user_id = user.id.
C28_OwnControls ==
    \A c \in Clients :
        /\ Elems(userBookings(c)) = OwnedListed(c)
        /\ Elems(dashboardBookings(c)) = OwnedListed(c)

\* The bookings for which SheetsService.addBooking has returned true: those
\* appended to the sheet and those pushed to localStorage.
AddedBookings ==
    {[id |-> sheet[k][1], date |-> sheet[k][2], startTime |-> sheet[k][3],
      endTime |-> sheet[k][4], title |-> sheet[k][5], bookedBy |-> sheet[k][6],
      email |-> sheet[k][7], department |-> sheet[k][8],
      createdAt |-> sheet[k][9]] : k \in {n \in 1..Len(sheet) : sheet[n][1] # Null}}
    \cup Elems(local)

\* C29: in the sheets-backed service, once addBooking has returned true the
\* new booking is returned by every later getBookings call with the same
\* id, date, startTime, endTime, title, bookedBy and createdAt, whether the
\* remote write and the later remote reads succeed or fail.
C29_AddedStaysListed ==
    (ret # Null /\ ret[1].op = "list")
        => \A b \in AddedBookings : \E k \in 1..Len(Listed) :
              /\ Listed[k].id = b.id
              /\ Listed[k].date = b.date
              /\ Listed[k].startTime = b.startTime
              /\ Listed[k].endTime = b.endTime
              /\ Listed[k].title = b.title
              /\ Listed[k].bookedBy = b.bookedBy
              /\ Listed[k].createdAt = b.createdAt

====
